---- MODULE Spec2Model ----
(***************************************************************************)
(* Model of system/seport.py: the Ansible module that manages SELinux      *)
(* network port type definitions through seobject.portRecords.             *)
(*                                                                         *)
(* Strings that the module takes apart (the port argument) are sequences   *)
(* of one-character strings, so that split() and int() are modelled by     *)
(* what they do.  The policy store (seobject.portRecords) is the dict      *)
(* that get_all() returns: a function from (low, high, proto) to a type.   *)
(***************************************************************************)
EXTENDS Integers, Sequences, FiniteSets, TLC

\* ------------------------------------------------------------------------
\* Bounds of the model
\* ------------------------------------------------------------------------
\* Largest port number of the bindings the store starts with and of the
\* well-formed port arguments.
MaxPort == 2
\* Largest number of bindings in the initial store.
MaxStore == 1
\* Longest port argument (in characters) of the exhaustive parsing runs.
MaxSpecLen == 3
\* Number of invocations of the module in the repeated-run specification.
MaxRuns == 2
\* Number of changes another process makes to the policy during one invocation.
MaxExternal == 1

\* The largest port number the spec allows (spec.md section 3); the code
\* never mentions it.
MaxPortNumber == 65535

\* ------------------------------------------------------------------------
\* Python strings: str.split and int()
\* ------------------------------------------------------------------------
Digits == <<"0", "1", "2", "3", "4", "5", "6", "7", "8", "9">>

IsDigit(c) == \E i \in 1..10 : Digits[i] = c

DigitVal(c) == (CHOOSE i \in 1..10 : Digits[i] = c) - 1

\* Whitespace that int() strips.
IsSpace(c) == c \in {" ", "\t", "\n", "\r", "\f"}

RECURSIVE DigitsVal(_)
\* Value of a non-empty run of decimal digits.
DigitsVal(s) ==
    IF Len(s) = 0 THEN 0
    ELSE DigitsVal(SubSeq(s, 1, Len(s) - 1)) * 10 + DigitVal(s[Len(s)])

RECURSIVE Strip(_)
\* int() ignores leading and trailing whitespace.
Strip(s) ==
    IF Len(s) > 0 /\ IsSpace(s[1]) THEN Strip(Tail(s))
    ELSE IF Len(s) > 0 /\ IsSpace(s[Len(s)]) THEN Strip(SubSeq(s, 1, Len(s) - 1))
    ELSE s

\* The digits of an integer literal, after whitespace and one optional sign.
Unsigned(s) ==
    LET t == Strip(s)
    IN  IF Len(t) > 0 /\ t[1] \in {"-", "+"} THEN Tail(t) ELSE t

\* int(s) succeeds: optional whitespace, optional sign, one or more digits.
PyIntOk(s) ==
    LET u == Unsigned(s)
    IN  Len(u) > 0 /\ \A i \in 1..Len(u) : IsDigit(u[i])

\* int(s) when it succeeds (arbitrary precision: no overflow).
PyInt(s) ==
    LET t == Strip(s)
    IN  IF Len(t) > 0 /\ t[1] = "-" THEN 0 - DigitsVal(Unsigned(s))
        ELSE DigitsVal(Unsigned(s))

\* Position of the first "-" of s, or 0.
FirstDash(s) ==
    IF \E i \in 1..Len(s) : s[i] = "-"
    THEN CHOOSE i \in 1..Len(s) : s[i] = "-" /\ \A j \in 1..(i - 1) : s[j] # "-"
    ELSE 0

\* port.split('-', 1): at most one split, at the first "-".
SplitAtDash(s) ==
    LET k == FirstDash(s)
    IN  IF k = 0 THEN <<s>>
        ELSE <<SubSeq(s, 1, k - 1), SubSeq(s, k + 1, Len(s))>>

\* ports = port.split('-', 1); if len(ports) == 1: ports.extend(ports)
PortParts(p) ==
    LET ports == SplitAtDash(p)
    IN  IF Len(ports) = 1 THEN ports \o ports ELSE ports

\* A parser that also checks 1 <= low <= high <= 65535.
PortParsesBounded(p) ==
    LET ports == PortParts(p)
    IN  /\ PyIntOk(ports[1])
        /\ PyIntOk(ports[2])
        /\ 1 <= PyInt(ports[1])
        /\ PyInt(ports[1]) <= PyInt(ports[2])
        /\ PyInt(ports[2]) <= MaxPortNumber

\* map(int, ports) raises no ValueError (Python 2: map builds the list at
\* once, so int() runs on both parts before get_all() is called).
PortParses(p) ==
    LET ports == PortParts(p)
    IN  PyIntOk(ports[1]) /\ PyIntOk(ports[2])

\* record = (ports[0], ports[1], proto)
Record(p, pr) ==
    LET ports == PortParts(p)
    IN  <<PyInt(ports[1]), PyInt(ports[2]), pr>>

\* A lookup that matches any binding whose range overlaps the record's.
RecordOverlaps(rec, dict) ==
    \E k \in DOMAIN dict : k[3] = rec[3] /\ k[1] <= rec[2] /\ rec[1] <= k[2]

\* record in seport.get_all(): membership among the keys of the dict.
RecordIn(rec, dict) == rec \in DOMAIN dict

\* semanage_port_exists, given the dict that get_all() returned.
semanage_port_exists(dict, p, pr) == RecordIn(Record(p, pr), dict)

\* ------------------------------------------------------------------------
\* Inputs of the module (argument_spec) and contents of the store
\* ------------------------------------------------------------------------
RECURSIVE NatStr(_)
\* The decimal numeral of a natural number, as the user writes a port.
NatStr(n) ==
    IF n < 10 THEN <<Digits[n + 1]>>
    ELSE NatStr(n \div 10) \o <<Digits[(n % 10) + 1]>>

\* 'proto': choices tcp, udp.
Protos == {"tcp", "udp"}

\* 'state': choices present, absent.
States == {"present", "absent"}

\* 'setype': any string; two types are enough to tell them apart.
SeTypes == {"http_port_t", "ssh_port_t"}

\* Numbers written in port arguments: the small ports, 0, and the first
\* number above the largest port.
PortNumbers == (0..MaxPort) \cup {MaxPortNumber + 1}

\* Port arguments that are not "A" or "A-B": the empty string, a word,
\* three components, and a negative upper end ("1--1").
OddPorts ==
    { <<>>,
      <<"x">>,
      <<"1", "-", "1", "-", "1">>,
      <<"1", "-", "-", "1">> }

\* 'port': required, any string.
PortInputs ==
    {NatStr(a) : a \in PortNumbers}
        \cup {NatStr(a) \o <<"-">> \o NatStr(b) : a, b \in PortNumbers}
        \cup OddPorts

\* Keys of the bindings a policy can hold before the module runs.
StoreKeys ==
    {<<lo, hi, pr>> : lo \in 1..MaxPort, hi \in 1..MaxPort, pr \in Protos}
        \ {<<lo, hi, pr>> \in (1..MaxPort) \X (1..MaxPort) \X Protos : lo > hi}

\* The type the bindings of the initial policy carry.
StoreType == "ssh_port_t"

\* serange='s0': the default MLS/MCS range of semanage_port_add.
DefaultSerange == "s0"

\* sestore='': the default SELinux store.
DefaultSestore == ""

\* Policies the module can meet: get_all() maps (low, high, proto) to
\* (type, level).
Stores ==
    {[k \in ks |-> <<StoreType, DefaultSerange>>] :
        ks \in {x \in SUBSET StoreKeys : Cardinality(x) <= MaxStore}}

\* The exception classes semanage_port_add and semanage_port_del catch.
ExcClasses == {"ValueError", "IOError", "KeyError", "OSError", "RuntimeError"}

\* ------------------------------------------------------------------------
\* State
\* ------------------------------------------------------------------------
VARIABLES
    store,            \* the policy: (low, high, proto) -> (type, level)
    HAVE_SELINUX,     \* import selinux succeeded
    HAVE_SEOBJECT,    \* import seobject succeeded
    selinux_enabled,  \* what selinux.is_selinux_enabled() answers
    pc,               \* position of the invocation
    port, proto, setype, state, do_reload,   \* locals of main
    check_mode,       \* module.check_mode
    record,           \* semanage_port_exists: (ports[0], ports[1], proto)
    all,              \* semanage_port_exists: what get_all() returned
    exists,           \* what semanage_port_exists returned
    change,           \* semanage_port_add / semanage_port_del: change
    calls,            \* calls made on seobject.portRecords, in order
    raised,           \* the exception a call into the store raised, if any
    result,           \* what exit_json / fail_json reported
    interfered,       \* changes another process made to the policy meanwhile
    run,              \* number of the invocation
    history           \* results of the earlier invocations

vars ==
    <<store, HAVE_SELINUX, HAVE_SEOBJECT, selinux_enabled, pc, port, proto,
      setype, state, do_reload, check_mode, record, all, exists, change,
      calls, raised, result, interfered, run, history>>

env == <<HAVE_SELINUX, HAVE_SEOBJECT, selinux_enabled>>
params == <<port, proto, setype, state, do_reload, check_mode>>
locals == <<record, all, exists, change>>
outcome == <<raised, result>>

NoResult == [kind |-> "none", changed |-> FALSE, msg |-> <<>>]

\* module.exit_json(**result): result['changed'] is what the function returned.
ExitJson(changed) == [kind |-> "exit", changed |-> changed, msg |-> <<>>]

\* module.fail_json(msg=...): the process ends, failed, with no 'changed'.
FailJson(msg) == [kind |-> "fail", changed |-> FALSE, msg |-> msg]

\* A message that leaves the class name out: msg=str(e).
ExcMsgNoClass(cls, text) == <<text>>

\* msg="%s: %s\n" % (e.__class__.__name__, str(e))
ExcMsg(cls, text) == <<cls, text>>

Call(op, args) == [op |-> op, args |-> args]

NoCalls == <<>>
NoExc == <<>>

\* An exception: its class and str(e).
Exc(cls, text) == <<cls, text>>
NoRecord == <<>>
NoAll == <<>>

\* ------------------------------------------------------------------------
\* Decisions of semanage_port_add and semanage_port_del
\* ------------------------------------------------------------------------
\* A lookup that also compares the type: a binding of another type counts
\* as a change to make.
AddChangeOnOtherType(found) ==
    ~found \/ store[Record(port, proto)][1] # setype

\* A slip: change = semanage_port_exists(...), the test not negated.
AddChangeNotNegated(found) == found

\* semanage_port_add: change = not semanage_port_exists(seport, port, proto)
AddChange(found) == ~found

\* semanage_port_del: change = not semanage_port_exists(seport, port, proto)
DelChange(found) == ~found

\* A slip: "if change", check mode forgotten.
AddGuardNoCheckMode(chg, check) == chg

\* semanage_port_add: if change and not module.check_mode
AddGuard(chg, check) == chg /\ ~check

\* semanage_port_del: if change and not module.check_mode
DelGuard(chg, check) == chg /\ ~check

\* A handler that swallows "already defined" and returns unchanged.
AddHandlerTolerant(cls, text) ==
    IF text = "already defined" THEN ExitJson(FALSE)
    ELSE FailJson(ExcMsg(cls, text))

\* semanage_port_add: except ValueError / IOError / KeyError / OSError /
\* RuntimeError as e: module.fail_json(msg="%s: %s\n" % (class name, str(e)))
AddHandler(cls, text) == FailJson(ExcMsg(cls, text))

\* semanage_port_del: the same five handlers.
DelHandler(cls, text) == FailJson(ExcMsg(cls, text))

\* seport.set_reload(do_reload)
SetReloadCall(reload) == Call("set_reload", <<reload>>)

\* seport.add(port, proto, serange, setype)
AddCall(p, pr, serange, type) == Call("add", <<p, pr, serange, type>>)

\* seport.delete(port, proto)
DeleteCall(p, pr) == Call("delete", <<p, pr>>)

\* The reload flag set after the add instead of before it.
AddCallsReloadLast(p, pr, reload, serange, type) ==
    <<AddCall(p, pr, serange, type), SetReloadCall(reload)>>

\* A delete that reads the policy again afterwards to verify.
DelCallsThenVerify(p, pr, reload) ==
    <<SetReloadCall(reload), DeleteCall(p, pr), Call("get_all", <<>>)>>

\* A replace written as delete followed by add.
AddCallsReplace(p, pr, reload, serange, type) ==
    <<SetReloadCall(reload), DeleteCall(p, pr), AddCall(p, pr, serange, type)>>

\* semanage_port_add, inside "if change and not module.check_mode":
\* seport.set_reload(do_reload); seport.add(port, proto, serange, setype)
AddCalls(p, pr, reload, serange, type) ==
    <<SetReloadCall(reload), AddCall(p, pr, serange, type)>>

\* semanage_port_del, inside "if change and not module.check_mode":
\* seport.set_reload(do_reload); seport.delete(port, proto)
DelCalls(p, pr, reload) == <<SetReloadCall(reload), DeleteCall(p, pr)>>

\* Handlers that swallow ValueError and go on as if nothing changed.
HandlerSwallowsValueError(st, cls, text) ==
    IF cls = "ValueError" THEN ExitJson(FALSE) ELSE FailJson(ExcMsg(cls, text))

\* The handler of the function main called.
Handler(st, cls, text) ==
    IF st = "present" THEN AddHandler(cls, text) ELSE DelHandler(cls, text)

\* ------------------------------------------------------------------------
\* The policy store behind seobject.portRecords
\* ------------------------------------------------------------------------
\* add: the binding is recorded with its type and level.
StoreAdd(st, key, type, serange) ==
    [k \in DOMAIN st \cup {key} |-> IF k = key THEN <<type, serange>> ELSE st[k]]

\* delete: the binding is dropped.
StoreDelete(st, key) == [k \in DOMAIN st \ {key} |-> st[k]]

\* ------------------------------------------------------------------------
\* Initial states
\* ------------------------------------------------------------------------
Fresh ==
    /\ port = <<>>
    /\ proto = ""
    /\ setype = ""
    /\ state = ""
    /\ do_reload = FALSE
    /\ check_mode = FALSE
    /\ record = NoRecord
    /\ all = NoAll
    /\ exists = FALSE
    /\ change = FALSE
    /\ calls = NoCalls
    /\ raised = NoExc
    /\ result = NoResult
    /\ interfered = 0
    /\ run = 1
    /\ history = <<>>

Init ==
    /\ store \in Stores
    /\ HAVE_SELINUX \in BOOLEAN
    /\ HAVE_SEOBJECT \in BOOLEAN
    /\ selinux_enabled \in BOOLEAN
    /\ pc = "main"
    /\ Fresh

\* ------------------------------------------------------------------------
\* main
\* ------------------------------------------------------------------------
\* if not HAVE_SELINUX: module.fail_json(...)
CheckSelinux ==
    /\ pc = "main"
    /\ IF ~HAVE_SELINUX
       THEN /\ result' = FailJson(<<"This module requires libselinux-python">>)
            /\ pc' = "done"
       ELSE /\ pc' = "check_seobject"
            /\ UNCHANGED result
    /\ UNCHANGED <<store, env, params, locals, calls, raised, interfered, run, history>>

\* if not HAVE_SEOBJECT: module.fail_json(...)
CheckSeobject ==
    /\ pc = "check_seobject"
    /\ IF ~HAVE_SEOBJECT
       THEN /\ result' = FailJson(<<"This module requires policycoreutils-python">>)
            /\ pc' = "done"
       ELSE /\ pc' = "check_enabled"
            /\ UNCHANGED result
    /\ UNCHANGED <<store, env, params, locals, calls, raised, interfered, run, history>>

\* The test of selinux.is_selinux_enabled() left out.
CheckEnabledSkipped ==
    /\ pc = "check_enabled"
    /\ pc' = "params"
    /\ UNCHANGED <<store, env, params, locals, calls, outcome, interfered, run, history>>

\* if not selinux.is_selinux_enabled(): module.fail_json(...)
CheckEnabled ==
    /\ pc = "check_enabled"
    /\ IF ~selinux_enabled
       THEN /\ result' = FailJson(<<"SELinux is disabled on this host.">>)
            /\ pc' = "done"
       ELSE /\ pc' = "params"
            /\ UNCHANGED result
    /\ UNCHANGED <<store, env, params, locals, calls, raised, interfered, run, history>>

\* port = module.params['port'] ... do_reload = module.params['reload'].
\* The arguments of the first invocation are drawn here, where main reads
\* them; a later invocation is given the same arguments.
ReadParams ==
    /\ pc = "params"
    /\ IF run = 1
       THEN /\ port' \in PortInputs
            /\ proto' \in Protos
            /\ setype' \in SeTypes
            /\ state' \in States
            /\ do_reload' \in BOOLEAN
            /\ check_mode' \in BOOLEAN
       ELSE UNCHANGED params
    /\ pc' = "call"
    /\ UNCHANGED <<store, env, locals, calls, outcome, interfered, run, history>>

\* if state == 'present': semanage_port_add(...) elif state == 'absent':
\* semanage_port_del(...); both start with seobject.portRecords(sestore).
\* (The else branch of main cannot be taken: 'state' has choices.)
PortRecords ==
    /\ pc = "call"
    /\ state \in States
    /\ calls' = Append(calls, Call("portRecords", <<DefaultSestore>>))
    /\ pc' = "exists"
    /\ UNCHANGED <<store, env, params, locals, outcome, interfered, run, history>>

\* change = not semanage_port_exists(seport, port, proto), then the test
\* "if change and not module.check_mode".  int() raises ValueError before
\* get_all() is called when a component of the port is no integer.
PortExists ==
    /\ pc = "exists"
    /\ IF ~PortParses(port)
       THEN /\ raised' = Exc("ValueError", "invalid literal for int()")
            /\ result' = Handler(state, "ValueError", "invalid literal for int()")
            /\ pc' = "done"
            /\ UNCHANGED <<locals, calls>>
       ELSE LET found == semanage_port_exists(store, port, proto)
                chg == IF state = "present" THEN AddChange(found) ELSE DelChange(found)
                go == IF state = "present" THEN AddGuard(chg, check_mode)
                      ELSE DelGuard(chg, check_mode)
            IN  /\ calls' = Append(calls, Call("get_all", <<>>))
                /\ record' = Record(port, proto)
                /\ all' = store
                /\ exists' = found
                /\ change' = chg
                /\ pc' = IF go THEN "mutate" ELSE "return"
                /\ UNCHANGED outcome
    /\ UNCHANGED <<store, env, params, interfered, run, history>>

\* seport.set_reload(do_reload); seport.add(port, proto, serange, setype).
\* The store refuses a binding that is already defined with ValueError.
PortAdd ==
    /\ pc = "mutate"
    /\ state = "present"
    /\ calls' = calls \o AddCalls(port, proto, do_reload, DefaultSerange, setype)
    /\ IF record \in DOMAIN store
       THEN /\ raised' = Exc("ValueError", "already defined")
            /\ result' = AddHandler("ValueError", "already defined")
            /\ pc' = "done"
            /\ UNCHANGED store
       ELSE /\ store' = StoreAdd(store, record, setype, DefaultSerange)
            /\ pc' = "return"
            /\ UNCHANGED outcome
    /\ UNCHANGED <<env, params, locals, interfered, run, history>>

\* seport.set_reload(do_reload); seport.delete(port, proto).
\* The store refuses a binding that is not defined with ValueError.
PortDelete ==
    /\ pc = "mutate"
    /\ state = "absent"
    /\ calls' = calls \o DelCalls(port, proto, do_reload)
    /\ IF record \notin DOMAIN store
       THEN /\ raised' = Exc("ValueError", "not defined")
            /\ result' = DelHandler("ValueError", "not defined")
            /\ pc' = "done"
            /\ UNCHANGED store
       ELSE /\ store' = StoreDelete(store, record)
            /\ pc' = "return"
            /\ UNCHANGED outcome
    /\ UNCHANGED <<env, params, locals, interfered, run, history>>

\* return change; result['changed'] = ...; module.exit_json(**result)
Return ==
    /\ pc = "return"
    /\ result' = ExitJson(change)
    /\ pc' = "done"
    /\ UNCHANGED <<store, env, params, locals, calls, raised, interfered, run, history>>

\* ------------------------------------------------------------------------
\* Failures of the store other than "already defined" / "not defined"
\* ------------------------------------------------------------------------
\* What str(e) is for such a failure.
StoreFailure == "store failure"

\* seobject.portRecords(sestore) raises.
PortRecordsFault ==
    /\ pc = "call"
    /\ state \in States
    /\ \E cls \in ExcClasses :
           /\ raised' = Exc(cls, StoreFailure)
           /\ result' = Handler(state, cls, StoreFailure)
    /\ calls' = Append(calls, Call("portRecords", <<DefaultSestore>>))
    /\ pc' = "done"
    /\ UNCHANGED <<store, env, params, locals, interfered, run, history>>

\* seport.get_all() raises.
GetAllFault ==
    /\ pc = "exists"
    /\ PortParses(port)
    /\ \E cls \in ExcClasses :
           /\ raised' = Exc(cls, StoreFailure)
           /\ result' = Handler(state, cls, StoreFailure)
    /\ calls' = Append(calls, Call("get_all", <<>>))
    /\ pc' = "done"
    /\ UNCHANGED <<store, env, params, locals, interfered, run, history>>

\* seport.add(...) raises for another reason than "already defined".
PortAddFault ==
    /\ pc = "mutate"
    /\ state = "present"
    /\ \E cls \in ExcClasses :
           /\ raised' = Exc(cls, StoreFailure)
           /\ result' = AddHandler(cls, StoreFailure)
    /\ calls' = calls \o AddCalls(port, proto, do_reload, DefaultSerange, setype)
    /\ pc' = "done"
    /\ UNCHANGED <<store, env, params, locals, interfered, run, history>>

\* seport.delete(...) raises for another reason than "not defined".
PortDeleteFault ==
    /\ pc = "mutate"
    /\ state = "absent"
    /\ \E cls \in ExcClasses :
           /\ raised' = Exc(cls, StoreFailure)
           /\ result' = DelHandler(cls, StoreFailure)
    /\ calls' = calls \o DelCalls(port, proto, do_reload)
    /\ pc' = "done"
    /\ UNCHANGED <<store, env, params, locals, interfered, run, history>>

\* ------------------------------------------------------------------------
\* Another process changes the policy between get_all() and add/delete
\* ------------------------------------------------------------------------
\* Only the binding this invocation is about matters to its calls; a change
\* made before get_all() is a different initial policy.
ExternalAdd ==
    /\ pc \in {"mutate", "return"}
    /\ interfered < MaxExternal
    /\ record \notin DOMAIN store
    /\ \E t \in SeTypes : store' = StoreAdd(store, record, t, DefaultSerange)
    /\ interfered' = interfered + 1
    /\ UNCHANGED <<env, pc, params, locals, calls, outcome, run, history>>

ExternalDelete ==
    /\ pc \in {"mutate", "return"}
    /\ interfered < MaxExternal
    /\ record \in DOMAIN store
    /\ store' = StoreDelete(store, record)
    /\ interfered' = interfered + 1
    /\ UNCHANGED <<env, pc, params, locals, calls, outcome, run, history>>

\* ------------------------------------------------------------------------
\* The module is run again with the same arguments
\* ------------------------------------------------------------------------
\* What is kept of an invocation that has ended.
Past == [result |-> result, calls |-> calls]

Restart ==
    /\ pc = "done"
    /\ run < MaxRuns
    /\ history' = Append(history, Past)
    /\ run' = run + 1
    /\ pc' = "main"
    /\ record' = NoRecord
    /\ all' = NoAll
    /\ exists' = FALSE
    /\ change' = FALSE
    /\ calls' = NoCalls
    /\ raised' = NoExc
    /\ result' = NoResult
    /\ UNCHANGED <<store, env, params, interfered>>

\* A check-mode run is followed by the real run: the same arguments with
\* module.check_mode off, against the policy the check-mode run left.
RerunForReal ==
    /\ pc = "done"
    /\ run = 1
    /\ check_mode
    /\ check_mode' = FALSE
    /\ history' = Append(history, Past)
    /\ run' = run + 1
    /\ pc' = "main"
    /\ record' = NoRecord
    /\ all' = NoAll
    /\ exists' = FALSE
    /\ change' = FALSE
    /\ calls' = NoCalls
    /\ raised' = NoExc
    /\ result' = NoResult
    /\ UNCHANGED <<store, env, port, proto, setype, state, do_reload, interfered>>

\* The module is run again with another setype, against the policy the
\* first run read (the dict get_all() returned; the policy as it is when
\* the first run never got to read it).
RerunOtherType ==
    /\ pc = "done"
    /\ run = 1
    /\ state \in States
    /\ setype' \in SeTypes \ {setype}
    /\ store' = IF record # NoRecord THEN all ELSE store
    /\ history' = Append(history, Past)
    /\ run' = run + 1
    /\ pc' = "main"
    /\ record' = NoRecord
    /\ all' = NoAll
    /\ exists' = FALSE
    /\ change' = FALSE
    /\ calls' = NoCalls
    /\ raised' = NoExc
    /\ result' = NoResult
    /\ UNCHANGED <<env, port, proto, state, do_reload, check_mode, interfered>>

\* ------------------------------------------------------------------------
\* Specifications
\* ------------------------------------------------------------------------
\* One invocation against a store that answers as a working policy does.
Reconcile ==
    \/ CheckSelinux
    \/ CheckSeobject
    \/ CheckEnabled
    \/ ReadParams
    \/ PortRecords
    \/ PortExists
    \/ PortAdd
    \/ PortDelete
    \/ Return

Next ==
    \/ Reconcile
    \/ PortRecordsFault
    \/ GetAllFault
    \/ PortAddFault
    \/ PortDeleteFault
    \/ ExternalAdd
    \/ ExternalDelete

\* One invocation, with store failures and a concurrent writer.
Spec == Init /\ [][Next]_vars

NextTwice ==
    \/ Reconcile
    \/ Restart

\* Successive invocations with the same arguments, nothing else touching
\* the store and no store failure.
SpecTwice == Init /\ [][NextTwice]_vars

NextDryRun ==
    \/ Reconcile
    \/ RerunForReal

\* A check-mode run and then the real run, nothing else touching the
\* policy and no store failure.
SpecDryRun == Init /\ [][NextDryRun]_vars

NextTypes ==
    \/ Reconcile
    \/ RerunOtherType

\* Two runs that differ in setype only, against the same policy, nothing
\* else touching it and no store failure.
SpecTypes == Init /\ [][NextTypes]_vars

\* ------------------------------------------------------------------------
\* semanage_port_exists called on its own
\* ------------------------------------------------------------------------
\* Characters of the exhaustively enumerated port arguments.
SpecChars == {"0", "1", "2", "-", "+", " ", "x"}

ParseInputs ==
    PortInputs \cup UNION {[1..n -> SpecChars] : n \in 0..MaxSpecLen}

InitParse ==
    /\ store \in Stores
    /\ HAVE_SELINUX = TRUE
    /\ HAVE_SEOBJECT = TRUE
    /\ selinux_enabled = TRUE
    /\ pc = "lookup"
    /\ port \in ParseInputs
    /\ proto \in Protos
    /\ setype = ""
    /\ state = ""
    /\ do_reload = FALSE
    /\ check_mode = FALSE
    /\ record = NoRecord
    /\ all = NoAll
    /\ exists = FALSE
    /\ change = FALSE
    /\ calls = NoCalls
    /\ raised = NoExc
    /\ result = NoResult
    /\ interfered = 0
    /\ run = 1
    /\ history = <<>>

\* semanage_port_exists(seport, port, proto): returns, or int() raises.
Lookup ==
    /\ pc = "lookup"
    /\ IF ~PortParses(port)
       THEN /\ raised' = Exc("ValueError", "invalid literal for int()")
            /\ pc' = "raised"
            /\ UNCHANGED <<record, all, exists, calls>>
       ELSE /\ record' = Record(port, proto)
            /\ UNCHANGED raised
            /\ calls' = Append(calls, Call("get_all", <<>>))
            /\ all' = store
            /\ exists' = semanage_port_exists(store, port, proto)
            /\ pc' = "returned"
    /\ UNCHANGED <<store, env, params, change, result, interfered, run, history>>

NextParse == Lookup

SpecParse == InitParse /\ [][NextParse]_vars

\* ------------------------------------------------------------------------
\* Vocabulary of the properties
\* ------------------------------------------------------------------------
\* Positions of the calls of one operation in this invocation.
CallsOf(op) == {i \in DOMAIN calls : calls[i].op = op}

NCalls(op) == Cardinality(CallsOf(op))

\* The invocation has ended (exit_json or fail_json).
Done == pc = "done"

\* get_all() returned: the invocation holds a snapshot of the policy.
Listed == record # NoRecord

\* The keys a port argument denotes for the spec: "A" is (A, A), "A-B" is
\* (A, B), with 1 <= A <= B <= 65535.
SpecKeys(p, pr) ==
    {<<a, b, pr>> : a, b \in {n \in PortNumbers : 1 <= n /\ n <= MaxPortNumber}}
        \cap {k \in PortNumbers \X PortNumbers \X {pr} :
                 /\ k[1] <= k[2]
                 /\ \/ k[1] = k[2] /\ p = NatStr(k[1])
                    \/ p = NatStr(k[1]) \o <<"-">> \o NatStr(k[2])}

\* The port argument is a valid key.
ValidPort(p) == SpecKeys(p, "tcp") # {}

\* The key of a valid port argument.
KeyOf(p, pr) == CHOOSE k \in SpecKeys(p, pr) : TRUE

\* The three gates of main let the invocation through.
Gated == HAVE_SELINUX /\ HAVE_SEOBJECT /\ selinux_enabled

\* ------------------------------------------------------------------------
\* C1
\* ------------------------------------------------------------------------
\* C1: a run with state=present and check_mode off whose valid key is not in
\* the dict get_all() returned issues exactly one add(port, proto, 's0',
\* setype) and no delete, and reports changed=true when it ends with
\* exit_json (it ends otherwise only when that add call raised).
C1_AddWhenMissing ==
    (/\ Done
     /\ Listed
     /\ state = "present"
     /\ ~check_mode
     /\ ValidPort(port)
     /\ KeyOf(port, proto) \notin DOMAIN all)
    => /\ NCalls("add") = 1
       /\ NCalls("delete") = 0
       /\ \A i \in CallsOf("add") :
              calls[i].args = <<port, proto, "s0", setype>>
       /\ result.kind = "exit" => result.changed
       /\ result.kind = "fail" => /\ raised # NoExc
                                  /\ calls[Len(calls)].op = "add"

C1_Witness ==
    /\ Done
    /\ Listed
    /\ state = "present"
    /\ ~check_mode
    /\ port = <<"1">>
    /\ proto = "tcp"
    /\ setype = "http_port_t"
    /\ DOMAIN all = {}
    /\ NCalls("add") = 1
    /\ result = ExitJson(TRUE)
    /\ DOMAIN store = {<<1, 1, "tcp">>}
    /\ store[<<1, 1, "tcp">>] = <<"http_port_t", "s0">>

\* ------------------------------------------------------------------------
\* C2
\* ------------------------------------------------------------------------
\* C2: a run with state=absent and check_mode off whose valid key is in the
\* dict get_all() returned issues exactly one delete(port, proto) and
\* reports changed=true when it ends with exit_json.
C2_DeleteWhenPresent ==
    (/\ Done
     /\ Listed
     /\ state = "absent"
     /\ ~check_mode
     /\ ValidPort(port)
     /\ KeyOf(port, proto) \in DOMAIN all)
    => /\ NCalls("delete") = 1
       /\ \A i \in CallsOf("delete") : calls[i].args = <<port, proto>>
       /\ result.kind = "exit" => result.changed

\* ------------------------------------------------------------------------
\* C3
\* ------------------------------------------------------------------------
\* C3: when the desired presence equals the presence in the dict get_all()
\* returned, the run ends with exit_json, changed=false, and has called none
\* of add, delete and set_reload; the policy is as it was read unless
\* another process changed it.
C3_NoOpWhenSatisfied ==
    (/\ Done
     /\ Listed
     /\ ValidPort(port)
     /\ (state = "present") = (KeyOf(port, proto) \in DOMAIN all))
    => /\ result = ExitJson(FALSE)
       /\ NCalls("add") = 0
       /\ NCalls("delete") = 0
       /\ NCalls("set_reload") = 0
       /\ interfered = 0 => store = all

\* ------------------------------------------------------------------------
\* C4
\* ------------------------------------------------------------------------
\* C4: the second of two successive runs with the same arguments (valid
\* key, check_mode off, nothing else touching the policy) ends with
\* exit_json and changed=false.
C4_SecondRunUnchanged ==
    (/\ Done
     /\ run = 2
     /\ Gated
     /\ ~check_mode
     /\ ValidPort(port))
    => result = ExitJson(FALSE)

\* ------------------------------------------------------------------------
\* C5
\* ------------------------------------------------------------------------
\* C5: with check_mode on, no add, delete or set_reload is ever called,
\* whatever changed is, and the policy stays as get_all() returned it
\* unless another process changes it.
C5_DryRunNeverMutates ==
    check_mode
    => /\ NCalls("add") = 0
       /\ NCalls("delete") = 0
       /\ NCalls("set_reload") = 0
       /\ (Listed /\ interfered = 0) => store = all

C5_Witness ==
    /\ Done
    /\ check_mode
    /\ Listed
    /\ state = "present"
    /\ result = ExitJson(TRUE)
    /\ calls = <<Call("portRecords", <<"">>), Call("get_all", <<>>)>>
    /\ record \notin DOMAIN store

\* ------------------------------------------------------------------------
\* C6
\* ------------------------------------------------------------------------
\* C6: after a run with check_mode off that ends with exit_json, and with
\* no other process changing the policy, the valid key is in the policy if
\* state=present and is not in it if state=absent.
C6_Convergence ==
    (/\ Done
     /\ result.kind = "exit"
     /\ ~check_mode
     /\ interfered = 0
     /\ ValidPort(port))
    => (state = "present") = (KeyOf(port, proto) \in DOMAIN store)

\* ------------------------------------------------------------------------
\* C7
\* ------------------------------------------------------------------------
\* C7: semanage_port_exists returns true exactly when the triple it built is
\* a key of the dict get_all() returned; the port "A" is looked up as
\* (A, A, proto) and "A-B" as (A, B, proto), so a binding of another range
\* or another protocol never satisfies the lookup.
C7_ExactMatch ==
    pc = "returned"
    => /\ all = store
       /\ exists = (record \in DOMAIN all)
       /\ \A a, b \in PortNumbers :
              /\ port = NatStr(a)
                     => /\ record = <<a, a, proto>>
                        /\ exists = (<<a, a, proto>> \in DOMAIN store)
              /\ port = NatStr(a) \o <<"-">> \o NatStr(b)
                     => /\ record = <<a, b, proto>>
                        /\ exists = (<<a, b, proto>> \in DOMAIN store)

C7_Witness ==
    /\ pc = "returned"
    /\ port = <<"1", "-", "2">>
    /\ proto = "tcp"
    /\ DOMAIN store = {<<1, 1, "tcp">>}
    /\ record = <<1, 2, "tcp">>
    /\ exists = FALSE

\* ------------------------------------------------------------------------
\* C8
\* ------------------------------------------------------------------------
RaceErrors ==
    {Exc("ValueError", "already defined"), Exc("ValueError", "not defined")}

\* C8 as claimed: when another process changed the policy after get_all()
\* and add raised "already defined" (or delete raised "not defined"), the
\* run ends with exit_json and changed=false.
C8_RaceTolerated ==
    (Done /\ interfered > 0 /\ raised \in RaceErrors)
    => result = ExitJson(FALSE)

\* C8 as amended: when add raises "already defined" or delete raises "not
\* defined", the run ends with fail_json, the message naming ValueError and
\* the store's text, and reports no change.
C8_RaceIsFailure ==
    (Done /\ raised \in RaceErrors)
    => /\ result.kind = "fail"
       /\ result.msg = <<"ValueError", raised[2]>>
       /\ ~result.changed

C8_Witness ==
    /\ Done
    /\ interfered = 1
    /\ state = "present"
    /\ ~check_mode
    /\ record \notin DOMAIN all
    /\ record \in DOMAIN store
    /\ raised = Exc("ValueError", "already defined")
    /\ calls[Len(calls)].op = "add"
    /\ result.kind = "fail"

\* ------------------------------------------------------------------------
\* C9
\* ------------------------------------------------------------------------
\* C9: an invocation issues at most one of add and delete, also when a call
\* into the store raised; after an exception no further call is made.
C9_AtMostOneMutation ==
    /\ NCalls("add") + NCalls("delete") <= 1
    /\ raised # NoExc => Done

C9_Witness ==
    /\ Done
    /\ state = "present"
    /\ raised = Exc("IOError", StoreFailure)
    /\ NCalls("add") = 1
    /\ NCalls("delete") = 0
    /\ result.kind = "fail"

\* ------------------------------------------------------------------------
\* C10
\* ------------------------------------------------------------------------
\* A non-empty run of decimal digits.
IsNumeral(s) == Len(s) > 0 /\ \A i \in 1..Len(s) : IsDigit(s[i])

\* The numerals before and after the dash at position k.
Before(p, k) == SubSeq(p, 1, k - 1)
After(p, k) == SubSeq(p, k + 1, Len(p))

\* "A" or "A-B" with 1 <= A <= B <= 65535.
SpecAccepts(p) ==
    \/ /\ IsNumeral(p)
       /\ 1 <= DigitsVal(p)
       /\ DigitsVal(p) <= MaxPortNumber
    \/ \E k \in 1..Len(p) :
           /\ p[k] = "-"
           /\ IsNumeral(Before(p, k))
           /\ IsNumeral(After(p, k))
           /\ 1 <= DigitsVal(Before(p, k))
           /\ DigitsVal(Before(p, k)) <= DigitsVal(After(p, k))
           /\ DigitsVal(After(p, k)) <= MaxPortNumber

\* C10 as claimed: the port is accepted exactly when it is "A" or "A-B" with
\* 1 <= A <= B <= 65535; every other port is rejected.
C10_ParseValidates ==
    pc \in {"returned", "raised"}
    => ((pc = "returned") <=> SpecAccepts(port))

\* What int() takes: digits with one optional sign, whitespace around.
IsIntLiteral(s) ==
    LET t == Strip(s)
    IN  \/ IsNumeral(t)
        \/ Len(t) > 1 /\ t[1] \in {"+", "-"} /\ IsNumeral(Tail(t))

\* The port up to its first "-" and the rest after it are both integer
\* literals, or the port has no "-" and is one.
IntAccepts(p) ==
    \/ /\ \A i \in 1..Len(p) : p[i] # "-"
       /\ IsIntLiteral(p)
    \/ \E k \in 1..Len(p) :
           /\ p[k] = "-"
           /\ \A j \in 1..(k - 1) : p[j] # "-"
           /\ IsIntLiteral(Before(p, k))
           /\ IsIntLiteral(After(p, k))

\* C10 as amended: the port is split at its first "-" and each part goes
\* through int(); it is accepted exactly when every part is an integer
\* literal, giving (A, A) or (A, B) with no check of bounds or order, and is
\* rejected with ValueError otherwise (also "80-90-100").
C10_ParseAsInt ==
    pc \in {"returned", "raised"}
    => /\ (pc = "returned") <=> IntAccepts(port)
       /\ pc = "raised" => raised[1] = "ValueError"
       /\ \A a, b \in PortNumbers :
              /\ port = NatStr(a)
                     => pc = "returned" /\ record = <<a, a, proto>>
              /\ port = NatStr(a) \o <<"-">> \o NatStr(b)
                     => pc = "returned" /\ record = <<a, b, proto>>

C10_Witness ==
    /\ pc = "returned"
    /\ port = NatStr(2) \o <<"-">> \o NatStr(MaxPortNumber + 1)
    /\ record = <<2, MaxPortNumber + 1, proto>>


\* ------------------------------------------------------------------------
\* C11
\* ------------------------------------------------------------------------
\* The calls that read or change the policy.
NoPolicyCall ==
    /\ NCalls("get_all") = 0
    /\ NCalls("set_reload") = 0
    /\ NCalls("add") = 0
    /\ NCalls("delete") = 0

\* C11 as claimed: a run whose port is not "A" or "A-B" with
\* 1 <= A <= B <= 65535 ends with fail_json, changed not true, and has
\* called none of add, delete and set_reload, whatever the state argument.
C11_InvalidNeverReachesStore ==
    (Done /\ state \in States /\ ~SpecAccepts(port))
    => /\ result.kind = "fail"
       /\ ~result.changed
       /\ NCalls("add") = 0
       /\ NCalls("delete") = 0
       /\ NCalls("set_reload") = 0

\* C11 as amended: a run whose port has a part that int() rejects ends with
\* fail_json, changed not true, and has called none of get_all, set_reload,
\* add and delete, whatever the state argument; when the store itself did not
\* fail first, the message is the ValueError of int().
C11_UnparsableNeverReachesStore ==
    (Done /\ state \in States /\ ~IntAccepts(port))
    => /\ result.kind = "fail"
       /\ ~result.changed
       /\ NoPolicyCall
       /\ raised[2] # StoreFailure
              => result.msg = <<"ValueError", "invalid literal for int()">>

C11_Witness ==
    /\ Done
    /\ state = "present"
    /\ ~check_mode
    /\ port = <<"1", "-", "1", "-", "1">>
    /\ calls = <<Call("portRecords", <<"">>)>>
    /\ result = FailJson(<<"ValueError", "invalid literal for int()">>)


\* ------------------------------------------------------------------------
\* C12
\* ------------------------------------------------------------------------
\* The add and delete calls of this invocation.
NMutations == NCalls("add") + NCalls("delete")

\* C12: when the real run that follows a check-mode run on the same policy
\* ends with exit_json, it reports the changed value the check-mode run
\* reported; and the check-mode run reported changed=true exactly when the
\* real run issues its add or delete.
C12_DryRunPredicts ==
    (Done /\ run = 2 /\ Gated)
    => /\ result.kind = "exit" => history[1].result = result
       /\ history[1].result.changed <=> NMutations = 1
       /\ history[1].result.kind = "exit" <=> IntAccepts(port)

C12_Witness ==
    /\ Done
    /\ run = 2
    /\ state = "present"
    /\ history[1].result = ExitJson(TRUE)
    /\ history[1].calls = <<Call("portRecords", <<"">>), Call("get_all", <<>>)>>
    /\ NCalls("add") = 1
    /\ result = ExitJson(TRUE)


\* ------------------------------------------------------------------------
\* C13
\* ------------------------------------------------------------------------
\* Positions of the add and delete calls of this invocation.
Mutations == CallsOf("add") \cup CallsOf("delete")

\* C13: set_reload is called once for each add or delete, with the reload
\* argument of the invocation and right before that call; it is never
\* called in an invocation that issues no add or delete.
C13_ReloadBeforeMutation ==
    /\ NCalls("set_reload") = NMutations
    /\ \A i \in Mutations :
           /\ i > 1
           /\ calls[i - 1] = Call("set_reload", <<do_reload>>)

C13_Witness ==
    /\ Done
    /\ state = "present"
    /\ do_reload = FALSE
    /\ result = ExitJson(TRUE)
    /\ Len(calls) = 4
    /\ calls[3] = Call("set_reload", <<FALSE>>)
    /\ calls[4].op = "add"

\* ------------------------------------------------------------------------
\* C14
\* ------------------------------------------------------------------------
\* C14: a failure raised by portRecords(), get_all(), add or delete, of any
\* of the five classes and other than "already defined" / "not defined",
\* ends the invocation at once with fail_json; the message carries the
\* class name and the failure's text, and changed is not true.
C14_FailureIsFatal ==
    (raised # NoExc /\ raised \notin RaceErrors)
    => /\ Done
       /\ result = FailJson(<<raised[1], raised[2]>>)
       /\ ~result.changed
       /\ raised[1] \in ExcClasses

C14_Witness ==
    /\ Done
    /\ state = "absent"
    /\ raised = Exc("KeyError", StoreFailure)
    /\ calls[Len(calls)].op = "delete"
    /\ result.kind = "fail"
    /\ result.msg = <<"KeyError", StoreFailure>>

\* ------------------------------------------------------------------------
\* C15
\* ------------------------------------------------------------------------
\* The operations called, in order, without their arguments.
Ops(cs) == [i \in DOMAIN cs |-> cs[i].op]

\* C15: of two runs that differ in setype only, against the same policy,
\* the second makes the same calls and reports the same outcome and changed
\* value as the first; and state=present for a key that is bound, to
\* whatever type, issues no add and reports changed=false.
C15_TypeIndependent ==
    (Done /\ run = 2)
    => /\ Ops(calls) = Ops(history[1].calls)
       /\ result.kind = history[1].result.kind
       /\ result.changed = history[1].result.changed
       /\ (Listed /\ state = "present" /\ record \in DOMAIN all)
              => result = ExitJson(FALSE) /\ NCalls("add") = 0

C15_Witness ==
    /\ Done
    /\ run = 2
    /\ state = "present"
    /\ ~check_mode
    /\ Listed
    /\ record \in DOMAIN all
    /\ all[record][1] # setype
    /\ result = ExitJson(FALSE)
    /\ history[1].result = ExitJson(FALSE)
    /\ NCalls("add") = 0

\* ------------------------------------------------------------------------
\* C16
\* ------------------------------------------------------------------------
\* C16: an invocation calls get_all() at most once; an add or delete comes
\* after that call, is issued exactly when the dict it returned lacks the
\* record (whatever the policy holds by then), and is the last call made.
C16_ReadBeforeWrite ==
    /\ NCalls("get_all") <= 1
    /\ \A i \in Mutations :
           /\ \E j \in CallsOf("get_all") : j < i
           /\ i = Len(calls)
           /\ Listed
           /\ record \notin DOMAIN all
           /\ change

C16_Witness ==
    /\ Done
    /\ state = "absent"
    /\ interfered = 1
    /\ record \notin DOMAIN all
    /\ NCalls("get_all") = 1
    /\ NCalls("delete") = 1
    /\ calls[Len(calls)].op = "delete"
    /\ result = ExitJson(TRUE)

\* ------------------------------------------------------------------------
\* C17
\* ------------------------------------------------------------------------
\* The message of the first gate of main that fails.
GateMessage ==
    IF ~HAVE_SELINUX THEN <<"This module requires libselinux-python">>
    ELSE IF ~HAVE_SEOBJECT THEN <<"This module requires policycoreutils-python">>
    ELSE <<"SELinux is disabled on this host.">>

\* C17: when the selinux or the seobject library is missing, or SELinux is
\* disabled, the invocation makes no call on seobject.portRecords (not
\* even its construction), reads no argument, and ends only with the
\* fail_json of that gate.
C17_GatesComeFirst ==
    ~Gated
    => /\ calls = NoCalls
       /\ record = NoRecord
       /\ pc \in {"main", "check_seobject", "check_enabled", "done"}
       /\ Done => result = FailJson(GateMessage)

C17_Witness ==
    /\ Done
    /\ HAVE_SELINUX
    /\ HAVE_SEOBJECT
    /\ ~selinux_enabled
    /\ calls = NoCalls
    /\ result = FailJson(<<"SELinux is disabled on this host.">>)

====
